---- MODULE Spec2Model ----
(***************************************************************************)
(* Model of the WSPR transmitter configuration program                     *)
(* (src/src/WSPR_TX_Config.py): the serial protocol engine of Controller   *)
(* (drive, updateStatus, handleMessage and the handlers), the line         *)
(* transport of Model (readPort, sendPort, portName), the mirror clock MC  *)
(* and the frequency register of the signal generator tab.                 *)
(*                                                                         *)
(* Text is modelled as sequences of one-character strings, so that Python  *)
(* indexing, slicing, isdigit(), int(), split() and format() are computed  *)
(* and not assumed.  Python integers are unbounded; the frequency register *)
(* holds values around 10^11, so it is kept as a pair <<hi, lo>> denoting  *)
(* hi * 10^6 + lo with lo in 0 .. 10^6 - 1.                                *)
(***************************************************************************)
EXTENDS Integers, Sequences, FiniteSets, TLC

VARIABLES
    pc,         \* where Controller.drive is: "main", "resync", "crashed", "closed"
    portName,   \* Model._serialPort: "None" or the name of the selected port
    fd,         \* Model._fd: "None", "open" or "closed"
    cmdIdx,     \* position of self.cmd in the list of updateStatus (0 outside it)
    count,      \* self.count of updateStatus
    fq,         \* Controller.fq, as <<hi, lo>>
    dispFQ,     \* the eleven digits shown by View.setFQ (d100M .. d1c)
    hour,       \* MC._hour
    minute,     \* MC._minute
    second,     \* MC._second
    job,        \* MC._job: "None", "live" (names a pending timer), "stale"
    pending,    \* number of __tick callbacks pending in the Tk timer queue
    sats,       \* Controller.sats
    deviceOK,   \* the 'device detected' indicator set by View.serialOK
    act,        \* history: the operation performed by the last step
    line,       \* history: what readPort returned in the last step
    ev,         \* history: the calls and writes made by the last step, in order
    idle,       \* history: reads of the current resync wait that left count alone
    hist,       \* history: the button presses or the tick the last steps made
                \* in a row (at most two, latest first), with the value before
    nEv,        \* history: number of user and timer events handled so far
    wire        \* the bytes the device has sent that no fd.read has taken yet

vars == <<pc, portName, fd, cmdIdx, count, fq, dispFQ, hour, minute, second,
          job, pending, sats, deviceOK, act, line, ev, idle, hist, nEv, wire>>

----------------------------------------------------------------------------
(* Python text primitives                                                  *)

Min(a, b) == IF a < b THEN a ELSE b
Max(a, b) == IF a > b THEN a ELSE b

\* s[a:b] for 0 <= a, 0 <= b (0-based, end exclusive, clamped to the text)
Slice(s, a, b) == SubSeq(s, a + 1, Min(b, Len(s)))

\* s[a:]
From(s, a) == SubSeq(s, a + 1, Len(s))

\* s[i] for 0 <= i < len(s); callers test the index first (IndexError otherwise)
At(s, i) == s[i + 1]

DigitChars == <<"0", "1", "2", "3", "4", "5", "6", "7", "8", "9">>
Digit == {DigitChars[i] : i \in 1..10}
DigitVal(c) == (CHOOSE i \in 1..10 : DigitChars[i] = c) - 1
White == {" ", "\t"}

\* str.isdigit(): non-empty and every character a digit
IsDigit(s) == Len(s) > 0 /\ \A i \in 1..Len(s) : s[i] \in Digit

\* str.rstrip()
RECURSIVE RStrip(_)
RStrip(s) == IF Len(s) > 0 /\ s[Len(s)] \in White
             THEN RStrip(SubSeq(s, 1, Len(s) - 1)) ELSE s

\* str.lstrip()
RECURSIVE LStrip(_)
LStrip(s) == IF Len(s) > 0 /\ s[1] \in White THEN LStrip(Tail(s)) ELSE s

\* the digits without leading zeros ("0" for zero): str(int(s)) for a digit text
RECURSIVE Canon(_)
Canon(s) == IF Len(s) > 1 /\ s[1] = "0" THEN Canon(Tail(s)) ELSE s

\* s padded with zeros on the left to at least n characters
RECURSIVE ZeroPad(_, _)
ZeroPad(s, n) == IF Len(s) < n THEN ZeroPad(<<"0">> \o s, n) ELSE s

\* value of a digit text that fits a machine integer
RECURSIVE DigitsVal(_)
DigitsVal(s) == IF Len(s) = 0 THEN 0
                ELSE 10 * DigitsVal(SubSeq(s, 1, Len(s) - 1)) + DigitVal(s[Len(s)])

\* digits of a natural number
RECURSIVE NatDigits(_)
NatDigits(n) == IF n < 10 THEN <<DigitChars[n + 1]>>
                ELSE Append(NatDigits(n \div 10), DigitChars[(n % 10) + 1])

\* int(s) accepts surrounding blanks and one sign before the digits
IntBody(s) == LET t == RStrip(LStrip(s))
              IN  IF Len(t) > 0 /\ t[1] \in {"+", "-"} THEN Tail(t) ELSE t
IntOK(s) == IsDigit(IntBody(s))
IntNeg(s) == LET t == LStrip(s) IN Len(t) > 0 /\ t[1] = "-"
IntVal(s) == IF IntNeg(s) THEN 0 - DigitsVal(IntBody(s)) ELSE DigitsVal(IntBody(s))

\* "{0:02d}".format(n)
Fmt02(n) == IF n < 0 THEN <<"-">> \o ZeroPad(NatDigits(0 - n), 1)
            ELSE ZeroPad(NatDigits(n), 2)

\* s.split(':')
RECURSIVE SplitColon(_)
SplitColon(s) ==
    IF \E i \in 1..Len(s) : s[i] = ":"
    THEN LET i == CHOOSE j \in 1..Len(s) :
                      s[j] = ":" /\ \A k \in 1..(j - 1) : s[k] # ":"
         IN  <<SubSeq(s, 1, i - 1)>> \o SplitColon(SubSeq(s, i + 1, Len(s)))
    ELSE <<s>>

----------------------------------------------------------------------------
(* Unbounded integers of the frequency register: <<hi, lo>> is             *)
(* hi * Limb + lo with lo in 0 .. Limb - 1; a negative number has hi < 0.  *)

Limb == 10^6

BigAdd(a, b) == <<a[1] + b[1] + ((a[2] + b[2]) \div Limb), (a[2] + b[2]) % Limb>>
BigSub(a, b) == <<a[1] - b[1] + ((a[2] - b[2]) \div Limb), (a[2] - b[2]) % Limb>>
BigLT(a, b) == a[1] < b[1] \/ (a[1] = b[1] /\ a[2] < b[2])
BigGT(a, b) == BigLT(b, a)
BigZero == <<0, 0>>
BigOne == <<0, 1>>

\* 10^k
Pow10(k) == IF k < 6 THEN <<0, 10^k>> ELSE <<10^(k - 6), 0>>

\* int(s) for a digit text
BigOfDigits(s) ==
    IF Len(s) <= 6 THEN <<0, DigitsVal(s)>>
    ELSE <<DigitsVal(SubSeq(s, 1, Len(s) - 6)), DigitsVal(SubSeq(s, Len(s) - 5, Len(s)))>>

\* '{0:012d}'.format(t) for t >= 0
Fmt012(t) ==
    IF t[1] = 0 THEN ZeroPad(NatDigits(t[2]), 12)
    ELSE ZeroPad(NatDigits(t[1]) \o ZeroPad(NatDigits(t[2]), 6), 12)

\* the register's capacity, 100000000000, and its value after construction
Capacity == <<10^5, 0>>
InitialFQ == <<100, 0>>

\* exponents of the amounts of up100M .. up1c and down100M .. down1c
Exponents == 0..10

----------------------------------------------------------------------------
(* Effects.  An operation of the program is an operator from the program   *)
(* state st (a record of the variables it may change) to a result          *)
(* [st, ev, exc]: the state it leaves, the calls and writes it made in     *)
(* program order, and whether it ended by raising an exception.            *)

Ok(st, evs) == [st |-> st, ev |-> evs, exc |-> FALSE]
Raise(st, evs, name) ==
    [st |-> st, ev |-> Append(evs, [k |-> "raise", exc |-> name]), exc |-> TRUE]

\* r, and then F on the state r left, unless r raised
Then(r, F(_)) ==
    IF r.exc THEN r
    ELSE LET r2 == F(r.st)
         IN  [st |-> r2.st, ev |-> r.ev \o r2.ev, exc |-> r2.exc]

\* a Tk callback (widget command, variable trace, timer): Tkinter reports
\* an exception raised by the callback and carries on
Callback(r) == [r EXCEPT !.exc = FALSE]

\* a call of a View method (or a widget update) with text arguments
Sink(f, args) == [k |-> "sink", f |-> f, a |-> args]
\* sys.stderr.write
Diag(f) == [k |-> "diag", f |-> f]
\* invocation of a handler of the command table
Call(op, data) == [k |-> "call", op |-> op, data |-> data]
\* return of that handler
Ret(op) == [k |-> "ret", op |-> op]
\* bytes handed to fd.write
Write(bytes) == [k |-> "write", bytes |-> bytes]
\* entry into and return from Controller.handleMessage
Enter == [k |-> "enter"]
Leave == [k |-> "leave"]

Writes(evs) == SelectSeq(evs, LAMBDA e : e.k = "write")
Sinks(evs) == SelectSeq(evs, LAMBDA e : e.k = "sink")
Calls(evs) == SelectSeq(evs, LAMBDA e : e.k = "call")
Diags(evs) == SelectSeq(evs, LAMBDA e : e.k = "diag")
Raises(evs) == SelectSeq(evs, LAMBDA e : e.k = "raise")

\* position of the first event of kind k (0 when there is none)
Pos(evs, k) ==
    IF \E i \in 1..Len(evs) : evs[i].k = k
    THEN CHOOSE i \in 1..Len(evs) : evs[i].k = k /\ \A j \in 1..(i - 1) : evs[j].k # k
    ELSE 0

\* the events after the first a and before the first b (to the end without b)
Between(evs, a, b) ==
    IF Pos(evs, a) = 0 THEN <<>>
    ELSE SubSeq(evs, Pos(evs, a) + 1,
                IF Pos(evs, b) = 0 THEN Len(evs) ELSE Pos(evs, b) - 1)

\* what handleMessage did, and what the handler it invoked did
Dispatched(evs) == Between(evs, "enter", "leave")
Handled(evs) == Between(evs, "call", "ret")

\* text of an integer, as str() gives it
IntText(n) == IF n < 0 THEN <<"-">> \o NatDigits(0 - n) ELSE NatDigits(n)

----------------------------------------------------------------------------
(* Opcodes                                                               *)

opCCM == <<"C", "C", "M">>
opOTP == <<"O", "T", "P">>
opOSM == <<"O", "S", "M">>
opOBD == <<"O", "B", "D">>
opOLC == <<"O", "L", "C">>
opOPW == <<"O", "P", "W">>
opDCS == <<"D", "C", "S">>
opDL4 == <<"D", "L", "4">>
opDPD == <<"D", "P", "D">>
opDNM == <<"D", "N", "M">>
opDGF == <<"D", "G", "F">>
opFPN == <<"F", "P", "N">>
opFHV == <<"F", "H", "V">>
opFHR == <<"F", "H", "R">>
opFSV == <<"F", "S", "V">>
opFSR == <<"F", "S", "R">>
opFRF == <<"F", "R", "F">>
opFLP == <<"F", "L", "P">>
opGL4 == <<"G", "L", "4">>
opGTM == <<"G", "T", "M">>
opGLC == <<"G", "L", "C">>
opGSI == <<"G", "S", "I">>
opTFQ == <<"T", "F", "Q">>
opTON == <<"T", "O", "N">>
opMPS == <<"M", "P", "S">>
opMIN == <<"M", "I", "N">>
opLPI == <<"L", "P", "I">>
opMVC == <<"M", "V", "C">>
opTBN == <<"T", "B", "N">>
opTWS == <<"T", "W", "S">>
opTCC == <<"T", "C", "C">>

----------------------------------------------------------------------------
(* Model: the transport                                                    *)

\* View.traceInsert
traceInsert(msg) == IF Len(msg) > 0 THEN <<Sink("traceInsert", <<msg>>)>> ELSE <<>>

\* the bytes built with the terminator whatever the opcode is
encodeCommandTerminated(cmd, data) ==
    IF Len(cmd) > 0 THEN <<"[">> \o cmd \o <<"]", " ">> \o data \o <<"\r", "\n">>
    ELSE data \o <<"\r", "\n">>

\* the bytes sendPort builds
encodeCommand(cmd, data) ==
    IF Len(cmd) > 0 THEN <<"[">> \o cmd \o <<"]", " ">> \o data \o <<"\r", "\n">>
    ELSE data

\* Model.sendPort
sendPort(st, cmd, data) ==
    LET shown == IF Len(cmd) > 0 THEN <<"[">> \o cmd \o <<"]", " ">> \o data ELSE data
        evs == traceInsert(shown)
    IN  CASE st.fd = "None"   -> Raise(st, evs, "AttributeError")
          [] st.fd = "closed" -> Raise(st, evs, "SerialException")
          [] OTHER            -> Ok(st, Append(evs, Write(encodeCommand(cmd, data))))

\* Model.readPort on the text in front of the next line terminator; <<>>
\* stands for nothing waiting (or an empty line)
readPort(st, raw) ==
    IF st.portName = "None" THEN <<>>
    ELSE IF Len(raw) < 1 THEN <<>>
    ELSE IF At(raw, 0) # "{" THEN <<>>
    ELSE RStrip(raw)

\* the ceiling of the read loop of Model.readPort
ReadCeiling == 1000000

\* fd.in_waiting as readPort saw it, and the read loop: the number of
\* fd.read(1) calls it made, the text it kept, and how it ended
Probe(n) == [k |-> "probe", n |-> n]
Read(n, got, end) == [k |-> "read", n |-> n, got |-> got, end |-> end]
Probes(evs) == SelectSeq(evs, LAMBDA e : e.k = "probe")
Reads(evs) == SelectSeq(evs, LAMBDA e : e.k = "read")

\* the loop of Model.readPort after n reads with _buff = buff.  head is
\* what the next reads deliver, one element a read: a character, or ""
\* for a read that timed out; once head is used up the device stays
\* silent, every further read times out and the loop runs to its ceiling
\* the loop taking the LF that follows a CR along with it
RECURSIVE readLoopPastCR(_, _, _)
readLoopPastCR(head, n, buff) ==
    IF ~(n < ReadCeiling) THEN Read(n, buff, "ceiling")
    ELSE IF Len(head) = 0 THEN Read(ReadCeiling, buff, "ceiling")
    ELSE IF Head(head) = "" THEN readLoopPastCR(Tail(head), n + 1, buff)
    ELSE IF Head(head) = "\r" /\ Len(head) > 1 /\ head[2] = "\n"
    THEN Read(n + 2, buff, "eol")
    ELSE IF Head(head) \in {"\r", "\n"} THEN Read(n + 1, buff, "eol")
    ELSE readLoopPastCR(Tail(head), n + 1, Append(buff, Head(head)))

RECURSIVE readLoop(_, _, _)
readLoop(head, n, buff) ==
    IF ~(n < ReadCeiling) THEN Read(n, buff, "ceiling")
    ELSE IF Len(head) = 0 THEN Read(ReadCeiling, buff, "ceiling")
    ELSE IF Head(head) = "" THEN readLoop(Tail(head), n + 1, buff)
    ELSE IF Head(head) \in {"\r", "\n"} THEN Read(n + 1, buff, "eol")
    ELSE readLoop(Tail(head), n + 1, Append(buff, Head(head)))

\* readPort returning the line whatever its first character is
readPortFromAnyLine(st, avail, head) ==
    IF st.portName = "None" THEN [line |-> <<>>, ev |-> <<>>]
    ELSE IF avail < 1 THEN [line |-> <<>>, ev |-> <<Probe(avail)>>]
    ELSE LET rd == readLoop(head, 0, <<>>)
         IN  [line |-> IF Len(rd.got) < 1 THEN <<>> ELSE RStrip(rd.got),
              ev |-> <<Probe(avail), rd>>]

\* readPort entering the read loop without looking at in_waiting
readPortFromUnprobed(st, avail, head) ==
    IF st.portName = "None" THEN [line |-> <<>>, ev |-> <<>>]
    ELSE LET rd == readLoop(head, 0, <<>>)
         IN  [line |-> IF Len(rd.got) < 1 THEN <<>>
                       ELSE IF At(rd.got, 0) # "{" THEN <<>>
                       ELSE RStrip(rd.got),
              ev |-> <<Probe(avail), rd>>]

\* Model.readPort on a transport that reports avail bytes waiting and
\* delivers head: the line returned and the accesses to the transport
readPortFrom(st, avail, head) ==
    IF st.portName = "None" THEN [line |-> <<>>, ev |-> <<>>]
    ELSE IF avail < 1 THEN [line |-> <<>>, ev |-> <<Probe(avail)>>]
    ELSE LET rd == readLoop(head, 0, <<>>)
         IN  [line |-> IF Len(rd.got) < 1 THEN <<>>
                       ELSE IF At(rd.got, 0) # "{" THEN <<>>
                       ELSE RStrip(rd.got),
              ev |-> <<Probe(avail), rd>>]

\* Model.bands
NBands == 16

G == <<"G">>

----------------------------------------------------------------------------
(* MC: the mirror clock                                                    *)

\* "{0:02d}:{1:02d}:{2:02d}".format(hour, minute, second)
TimeText(h, m, s) == Fmt02(h) \o <<":">> \o Fmt02(m) \o <<":">> \o Fmt02(s)

\* __tick with the hour test written as > 24: the day does not wrap at 24:00:00
tickLateWrap(st) ==
    LET s1 == st.second + 1
        m1 == IF s1 > 59 THEN st.minute + 1 ELSE st.minute
        h1 == IF s1 > 59 /\ m1 > 59 THEN st.hour + 1 ELSE st.hour
        s2 == IF s1 > 59 THEN 0 ELSE s1
        m2 == IF s1 > 59 /\ m1 > 59 THEN 0 ELSE m1
        h2 == IF s1 > 59 /\ m1 > 59 /\ h1 > 24 THEN 0 ELSE h1
    IN  Ok([st EXCEPT !.hour = h2, !.minute = m2, !.second = s2,
                      !.job = "live", !.pending = @ + 1],
           <<Sink("curtime", <<TimeText(h2, m2, s2)>>)>>)

\* MC.__tick, run by the timer that has just fired
tick(st) ==
    LET s1 == st.second + 1
        m1 == IF s1 > 59 THEN st.minute + 1 ELSE st.minute
        h1 == IF s1 > 59 /\ m1 > 59 THEN st.hour + 1 ELSE st.hour
        s2 == IF s1 > 59 THEN 0 ELSE s1
        m2 == IF s1 > 59 /\ m1 > 59 THEN 0 ELSE m1
        h2 == IF s1 > 59 /\ m1 > 59 /\ h1 > 23 THEN 0 ELSE h1
    IN  Ok([st EXCEPT !.hour = h2, !.minute = m2, !.second = s2,
                      !.job = "live", !.pending = @ + 1],
           <<Sink("curtime", <<TimeText(h2, m2, s2)>>)>>)

\* the setter arming a timer without cancelling the one that is pending
setTimeNoCancel(st, data) ==
    LET parts == SplitColon(data)
    IN  IF Len(parts) # 3 THEN Ok(st, <<>>)
        ELSE IF ~(IntOK(parts[1]) /\ IntOK(parts[2]) /\ IntOK(parts[3]))
        THEN Raise(st, <<>>, "ValueError")
        ELSE Ok([st EXCEPT !.hour = IntVal(parts[1]), !.minute = IntVal(parts[2]),
                           !.second = IntVal(parts[3]),
                           !.job = "live", !.pending = @ + 1], <<>>)

\* the setter arming a timer only when none was ever armed before
setTimeNoRearm(st, data) ==
    LET st1 == IF st.job = "live"
               THEN [st EXCEPT !.job = "stale", !.pending = @ - 1] ELSE st
        parts == SplitColon(data)
    IN  IF Len(parts) # 3 THEN Ok(st1, <<>>)
        ELSE IF ~(IntOK(parts[1]) /\ IntOK(parts[2]) /\ IntOK(parts[3]))
        THEN Raise(st1, <<>>, "ValueError")
        ELSE Ok([st1 EXCEPT !.hour = IntVal(parts[1]), !.minute = IntVal(parts[2]),
                            !.second = IntVal(parts[3]),
                            !.job = IF st.job = "None" THEN "live" ELSE @,
                            !.pending = IF st.job = "None" THEN @ + 1 ELSE @], <<>>)

\* MC.time (setter)
setTime(st, data) ==
    LET st1 == IF st.job = "live"
               THEN [st EXCEPT !.job = "stale", !.pending = @ - 1] ELSE st
        parts == SplitColon(data)
    IN  IF Len(parts) # 3 THEN Ok(st1, <<>>)
        ELSE IF ~(IntOK(parts[1]) /\ IntOK(parts[2]) /\ IntOK(parts[3]))
        THEN Raise(st1, <<>>, "ValueError")
        ELSE Ok([st1 EXCEPT !.hour = IntVal(parts[1]), !.minute = IntVal(parts[2]),
                            !.second = IntVal(parts[3]),
                            !.job = "live", !.pending = @ + 1], <<>>)

\* View.updateTime
updateTime(st, time) ==
    Then(Ok(st, <<Sink("curtime", <<time>>)>>), LAMBDA s : setTime(s, time))

----------------------------------------------------------------------------
(* View: the sink methods that keep state the model follows                *)

\* View.serialOK
serialOK(st, state) ==
    Ok([st EXCEPT !.deviceOK = state],
       <<Sink("serialOK", <<IF state THEN <<"T">> ELSE <<"F">>>>)>>)

\* Controller.setPortStatus
setPortStatus(st, state) == serialOK(st, state)

\* View.setFQ: int(data[1]) .. int(data[11])
setFQ(st, data) ==
    IF Len(data) < 12 THEN Raise(st, <<>>, "IndexError")
    ELSE IF ~IsDigit(Slice(data, 1, 12)) THEN Raise(st, <<>>, "ValueError")
    ELSE Ok([st EXCEPT !.dispFQ = Slice(data, 1, 12)], <<Sink("setFQ", <<data>>)>>)


----------------------------------------------------------------------------
(* Controller: callbacks of the traced View variables.  A handler that     *)
(* sets call, pauseTime, location or name runs the variable's write trace. *)

S(data) == <<"S", " ">> \o data

\* Controller.setCall
setCall(st, call) ==
    Then(sendPort(st, opCCM, S(<<"N">>)), LAMBDA s : sendPort(s, opDCS, S(call)))

\* Controller.callUpdate, the trace of View.call
callUpdate(st, v) ==
    Callback(Then(IF Len(v) > 6
                  THEN Ok(st, <<Sink("call", <<Slice(v, 0, 6)>>)>>)
                  ELSE setCall(st, v),
                  LAMBDA s : sendPort(s, opDCS, S(v))))

\* Controller.pauseUpdate, the trace of View.pauseTime; t is a digit text
pauseUpdate(st, t) ==
    Callback(IF Len(Canon(t)) > 5 THEN sendPort(st, opOTP, G)
             ELSE sendPort(st, opOTP, S(ZeroPad(Canon(t), 5))))

\* Controller.changeLocation, the trace of View.location
changeLocation(st, v) == Callback(sendPort(st, opDL4, S(v)))

\* Controller.nameUpdate, the trace of View.name
nameUpdate(st, n) == Callback(sendPort(st, opDNM, S(n)))

----------------------------------------------------------------------------
(* Controller: the handlers of the command table                           *)

handleCCM(st, data) ==
    IF Len(data) < 1 THEN Raise(st, <<>>, "NameError")
    ELSE CASE At(data, 0) = "N" ->
                Ok(st, <<Sink("setStopped", <<>>), Sink("program", <<<<"0">>>>)>>)
           [] At(data, 0) = "W" ->
                Ok(st, <<Sink("setRunning", <<>>), Sink("program", <<<<"1">>>>)>>)
           [] At(data, 0) = "S" ->
                Ok(st, <<Sink("setGenerating", <<>>), Sink("program", <<<<"2">>>>)>>)
           [] OTHER ->
                Then(Ok(st, <<Diag("CCM")>>), LAMBDA s : sendPort(s, opCCM, G))

handleOTP(st, data) ==
    IF IsDigit(data)
    THEN Then(Ok(st, <<Sink("pauseTime", <<Canon(data)>>)>>),
              LAMBDA s : pauseUpdate(s, data))
    ELSE Then(Ok(st, <<Diag("OTP")>>), LAMBDA s : sendPort(s, opOTP, G))

handleOSM(st, data) ==
    IF Len(data) < 1 THEN Raise(st, <<>>, "IndexError")
    ELSE IF At(data, 0) \in {"N", "W", "S"}
    THEN Ok(st, <<Sink("boot", <<<<At(data, 0)>>>>)>>)
    ELSE Then(Ok(st, <<Diag("OSM")>>), LAMBDA s : sendPort(s, opOSM, G))

handleOBD(st, data) ==
    IF ~IntOK(Slice(data, 0, 2)) THEN Raise(st, <<>>, "ValueError")
    ELSE IF Len(data) < 4 THEN Raise(st, <<>>, "IndexError")
    ELSE LET filter == IntVal(Slice(data, 0, 2))
             inList == filter < NBands /\ filter >= 0 - NBands
         IN  CASE At(data, 3) = "E" ->
                    IF inList THEN Ok(st, <<Sink("enable", <<IntText(filter), <<"1">>>>)>>)
                    ELSE Raise(st, <<>>, "IndexError")
               [] At(data, 3) = "D" ->
                    IF inList THEN Ok(st, <<Sink("enable", <<IntText(filter), <<"0">>>>)>>)
                    ELSE Raise(st, <<>>, "IndexError")
               [] OTHER ->
                    Then(Ok(st, <<Diag("OBD")>>), LAMBDA s : sendPort(s, opOBD, G))

handleOLC(st, data) ==
    IF Len(data) < 1 THEN Raise(st, <<>>, "IndexError")
    ELSE IF At(data, 0) \in {"G", "M"}
    THEN Ok(st, <<Sink("rpam", <<<<At(data, 0)>>>>)>>)
    ELSE Then(Ok(st, <<Diag("OLC")>>), LAMBDA s : sendPort(s, opOLC, G))

handleOPW(st, data) ==
    IF Len(data) < 1 THEN Raise(st, <<>>, "IndexError")
    ELSE IF At(data, 0) \in {"N", "A"}
    THEN Ok(st, <<Sink("rpmode", <<<<At(data, 0)>>>>)>>)
    ELSE Then(Ok(st, <<Diag("OPW")>>), LAMBDA s : sendPort(s, opOPW, G))

handleDCS(st, data) ==
    Then(Ok(st, <<Sink("call", <<data>>)>>), LAMBDA s : callUpdate(s, data))

handleDL4(st, data) ==
    Then(Ok(st, <<Sink("location", <<data>>)>>), LAMBDA s : changeLocation(s, data))

handleDPD(st, data) ==
    IF IsDigit(data)
    THEN Ok(st, <<Sink("rpwr", <<IF Len(Canon(data)) > 2 \/ DigitsVal(Canon(data)) > 60
                                 THEN <<"6", "0">> ELSE Canon(data)>>)>>)
    ELSE sendPort(st, opDPD, G)

handleDNM(st, data) ==
    Then(Ok(st, <<Sink("name", <<data>>)>>), LAMBDA s : nameUpdate(s, data))

handleDGF(st, data) ==
    IF Len(data) = 12 /\ IsDigit(data)
    THEN setFQ([st EXCEPT !.fq = BigOfDigits(data)], data)
    ELSE Then(Ok(st, <<Diag("DGF")>>), LAMBDA s : sendPort(s, opDGF, G))

handleFPN(st, data) == Ok(st, <<Sink("setDevice", <<data>>)>>)
handleFHV(st, data) == Ok(st, <<Sink("setHardwareVer", <<data>>)>>)
handleFHR(st, data) == Ok(st, <<Sink("setHardwareRev", <<data>>)>>)
handleFSV(st, data) == Ok(st, <<Sink("setFirmwareVer", <<data>>)>>)
handleFSR(st, data) == Ok(st, <<Sink("setFirmwareRev", <<data>>)>>)
handleFRF(st, data) == Ok(st, <<>>)

handleFLP(st, data) ==
    LET v == From(data, 2)
    IN  IF ~IsDigit(v) THEN Raise(st, <<>>, "NameError")
        ELSE IF Len(Canon(v)) > 2 \/ DigitsVal(Canon(v)) > NBands
        THEN Ok(st, <<Diag("FLP")>>)
        ELSE IF DigitsVal(Canon(v)) >= NBands THEN Raise(st, <<>>, "IndexError")
        ELSE Ok(st, <<Sink("installLP", <<Canon(v)>>)>>)

handleGL4(st, data) == Ok(st, <<Sink("setPosition", <<data>>)>>)

handleGTM(st, data) ==
    Then(updateTime(st, data),
         LAMBDA s : IF Len(s.sats) > 0
                    THEN Ok([s EXCEPT !.sats = <<>>],
                            <<Sink("r3l5", <<>>), Sink("satdata", s.sats)>>)
                    ELSE Ok(s, <<Sink("r3l5", <<>>)>>))

handleGLC(st, data) ==
    IF Len(data) < 1 THEN Raise(st, <<>>, "IndexError")
    ELSE IF At(data, 0) \in {"F", "T"}
    THEN Ok(st, <<Sink("locked", <<<<At(data, 0)>>>>)>>)
    ELSE Ok(st, <<Diag("GLC")>>)

handleGSI(st, data) == Ok([st EXCEPT !.sats = Append(@, data)], <<>>)

handleTFQ(st, data) ==
    IF IsDigit(data) THEN Ok(st, <<Sink("setFrequency", <<Canon(data)>>)>>)
    ELSE Ok(st, <<Diag("TFQ")>>)

handleTON(st, data) ==
    IF Len(data) < 1 THEN Raise(st, <<>>, "IndexError")
    ELSE CASE At(data, 0) = "T" -> Ok(st, <<Sink("tx", <<<<"1">>>>)>>)
           [] At(data, 0) = "F" -> Ok(st, <<Sink("tx", <<<<"0">>>>)>>)
           [] OTHER -> Then(Ok(st, <<Diag("TON")>>), LAMBDA s : sendPort(s, opTON, G))

handleMPS(st, data) ==
    IF IsDigit(data)
    THEN Ok(st, <<Sink("setActive", <<<<"-", "1">>, <<"black">>>>),
                  Sink("setProgress", <<<<"-", "1">>, Canon(data)>>)>>)
    ELSE Ok(st, <<Sink("setActive", <<<<"-", "1">>, <<"black">>>>), Diag("MPS")>>)

\* handleMIN sending the first query of updateStatus itself
handleMINRestarts(st, data) ==
    Then(Then(Then(Ok(st, <<Sink("logInsert", <<data>>)>>),
                   LAMBDA s : setPortStatus(s, TRUE)),
              LAMBDA s : Ok(s, <<Sink("saveButton", <<>>)>>)),
         LAMBDA s : sendPort(s, opCCM, G))

handleMIN(st, data) ==
    Then(Then(Ok(st, <<Sink("logInsert", <<data>>)>>),
              LAMBDA s : setPortStatus(s, TRUE)),
         LAMBDA s : Ok(s, <<Sink("saveButton", <<>>)>>))

handleLPI(st, data) == Ok(st, <<>>)
handleMVC(st, data) == Ok(st, <<>>)

handleTBN(st, data) ==
    IF ~IsDigit(data) THEN Ok(st, <<Diag("TBN")>>)
    ELSE Ok(st, <<Sink("setActive", <<Canon(data), <<"black">>>>)>>)

handleTWS(st, data) ==
    IF ~IsDigit(Slice(data, 0, 2)) THEN Ok(st, <<Diag("TWS")>>)
    ELSE LET v == Canon(Slice(data, 0, 2))
         IN  IF IsDigit(Slice(data, 3, 6))
             THEN Ok(st, <<Sink("setActive", <<v, <<"red">>>>),
                           Sink("setProgress", <<v, Canon(Slice(data, 3, 6))>>)>>)
             ELSE Ok(st, <<Sink("setActive", <<v, <<"red">>>>), Diag("TWS")>>)

handleTCC(st, data) == Ok(st, <<Sink("setProgress", <<<<"-", "1">>, <<"0">>>>)>>)

\* Controller.handlers: the keys of the command table
handlers == {opCCM, opOTP, opOSM, opOBD, opOLC, opOPW, opDCS, opDL4, opDPD, opDNM,
             opDGF, opFPN, opFHV, opFHR, opFSV, opFSR, opFRF, opFLP, opGL4, opGTM,
             opGLC, opGSI, opTFQ, opTON, opMPS, opMIN, opLPI, opMVC, opTBN, opTWS,
             opTCC}

\* self.handlers[self.resp](self.data)
invoke(st, op, data) ==
    Then(Then(Ok(st, <<Call(op, data)>>),
         LAMBDA s :
            CASE op = opCCM -> handleCCM(s, data) [] op = opOTP -> handleOTP(s, data)
              [] op = opOSM -> handleOSM(s, data) [] op = opOBD -> handleOBD(s, data)
              [] op = opOLC -> handleOLC(s, data) [] op = opOPW -> handleOPW(s, data)
              [] op = opDCS -> handleDCS(s, data) [] op = opDL4 -> handleDL4(s, data)
              [] op = opDPD -> handleDPD(s, data) [] op = opDNM -> handleDNM(s, data)
              [] op = opDGF -> handleDGF(s, data) [] op = opFPN -> handleFPN(s, data)
              [] op = opFHV -> handleFHV(s, data) [] op = opFHR -> handleFHR(s, data)
              [] op = opFSV -> handleFSV(s, data) [] op = opFSR -> handleFSR(s, data)
              [] op = opFRF -> handleFRF(s, data) [] op = opFLP -> handleFLP(s, data)
              [] op = opGL4 -> handleGL4(s, data) [] op = opGTM -> handleGTM(s, data)
              [] op = opGLC -> handleGLC(s, data) [] op = opGSI -> handleGSI(s, data)
              [] op = opTFQ -> handleTFQ(s, data) [] op = opTON -> handleTON(s, data)
              [] op = opMPS -> handleMPS(s, data) [] op = opMIN -> handleMIN(s, data)
              [] op = opLPI -> handleLPI(s, data) [] op = opMVC -> handleMVC(s, data)
              [] op = opTBN -> handleTBN(s, data) [] op = opTWS -> handleTWS(s, data)
              [] OTHER      -> handleTCC(s, data)),
         LAMBDA s : Ok(s, <<Ret(op)>>))

\* the payload cut at msg[6:] whether or not msg[5] is a space
payloadOfSix(msg) == IF Len(msg) > 5 THEN From(msg, 6) ELSE <<>>

\* the payload handleMessage cuts out of a line of five characters or more
payloadOf(msg) ==
    IF Len(msg) > 5
    THEN IF At(msg, 5) # " " THEN From(msg, 5) ELSE From(msg, 6)
    ELSE <<>>

\* handleMessage answering an opcode it does not know with a query for it
handleMessageAsksBack(st, msg) ==
    IF Len(msg) < 5 THEN Ok(st, <<Diag("short")>>)
    ELSE Then(IF At(msg, 0) = "{" /\ At(msg, 4) = "}"
              THEN setPortStatus(st, TRUE) ELSE Ok(st, <<>>),
              LAMBDA s :
                 IF Slice(msg, 1, 4) \notin handlers
                 THEN Then(Ok(s, <<Diag("unknown")>>),
                           LAMBDA u : sendPort(u, Slice(msg, 1, 4), G))
                 ELSE invoke(s, Slice(msg, 1, 4), payloadOf(msg)))

\* Controller.handleMessage
handleMessage(st, msg) ==
    IF Len(msg) < 5 THEN Ok(st, <<Diag("short")>>)
    ELSE Then(IF At(msg, 0) = "{" /\ At(msg, 4) = "}"
              THEN setPortStatus(st, TRUE) ELSE Ok(st, <<>>),
              LAMBDA s :
                 IF Slice(msg, 1, 4) \notin handlers THEN Ok(s, <<Diag("unknown")>>)
                 ELSE invoke(s, Slice(msg, 1, 4), payloadOf(msg)))


\* the line handed to handleMessage a second time
dispatchAgain(st, msg) ==
    Then(Then(Then(Ok(st, <<Enter>>), LAMBDA s : handleMessage(s, msg)),
              LAMBDA s : Ok(s, <<Leave, Enter>>)),
         LAMBDA s : Then(handleMessage(s, msg), LAMBDA u : Ok(u, <<Leave>>)))

\* a call of handleMessage from drive or updateStatus
dispatch(st, msg) ==
    Then(Then(Ok(st, <<Enter>>), LAMBDA s : handleMessage(s, msg)),
         LAMBDA s : Ok(s, <<Leave>>))

----------------------------------------------------------------------------
(* Controller: the resync routine and the operations of the user interface *)

\* the list updateStatus walks
ResyncList == <<opCCM, opOTP, opOSM, opOBD, opOLC, opOPW, opDCS, opDL4, opDPD,
                opDNM, opDGF, opFPN, opFHV, opFHR, opFSV, opFSR, opFRF, opFLP>>

\* the cap of the inner loop of updateStatus
ReadCap == 100

\* the pass with the opcode test made first: the reply awaited leaves the
\* loop without being handed to handleMessage
resyncPassMatchFirst(st, msg, i, c) ==
    LET shown == Ok(st, traceInsert(msg) \o <<Sink("rxChars", <<>>)>>)
        matched == Len(msg) > 2 /\ ResyncList[i] = Slice(msg, 1, 4)
        r == IF Len(msg) > 2 /\ ~matched THEN Then(shown, LAMBDA s : dispatch(s, msg))
             ELSE shown
    IN  [r |-> r, matched |-> matched,
         count |-> IF Len(msg) > 2 /\ ~r.exc /\ ~matched THEN c + 1 ELSE c]

\* the pass handing only the header of the line to handleMessage
resyncPassStripsPayload(st, msg, i, c) ==
    LET shown == Ok(st, traceInsert(msg) \o <<Sink("rxChars", <<>>)>>)
        r == IF Len(msg) > 2 THEN Then(shown, LAMBDA s : dispatch(s, Slice(msg, 0, 5)))
             ELSE shown
        matched == Len(msg) > 2 /\ ~r.exc /\ ResyncList[i] = Slice(msg, 1, 4)
    IN  [r |-> r, matched |-> matched,
         count |-> IF Len(msg) > 2 /\ ~r.exc /\ ~matched THEN c + 1 ELSE c]

\* the pass with a count that stops one short of the cap
resyncPassShortOfCap(st, msg, i, c) ==
    LET shown == Ok(st, traceInsert(msg) \o <<Sink("rxChars", <<>>)>>)
        r == IF Len(msg) > 2 THEN Then(shown, LAMBDA s : dispatch(s, msg))
             ELSE shown
        matched == Len(msg) > 2 /\ ~r.exc /\ ResyncList[i] = Slice(msg, 1, 4)
    IN  [r |-> r, matched |-> matched,
         count |-> IF Len(msg) > 2 /\ ~r.exc /\ ~matched
                   THEN Min(c + 1, ReadCap - 1) ELSE c]

\* one pass of the inner loop of updateStatus on the line msg, for the
\* opcode at position i with self.count = c: the effects, whether the loop
\* was left by break, and the new count
resyncPass(st, msg, i, c) ==
    LET shown == Ok(st, traceInsert(msg) \o <<Sink("rxChars", <<>>)>>)
        r == IF Len(msg) > 2 THEN Then(shown, LAMBDA s : dispatch(s, msg))
             ELSE shown
        matched == Len(msg) > 2 /\ ~r.exc /\ ResyncList[i] = Slice(msg, 1, 4)
    IN  [r |-> r, matched |-> matched,
         count |-> IF Len(msg) > 2 /\ ~r.exc /\ ~matched THEN c + 1 ELSE c]

\* addFQ with the wrap test written as >=: a sum equal to the capacity wraps
addFQWrapAtCapacity(st, add) ==
    LET t0 == BigAdd(st.fq, add)
        t == IF ~BigLT(t0, Capacity) THEN BigSub(t0, Capacity) ELSE t0
    IN  Then(sendPort([st EXCEPT !.fq = t], opDGF, S(Fmt012(t))),
             LAMBDA s : setFQ(s, Fmt012(t)))

\* addFQ holding the register at the capacity instead of wrapping
addFQSaturates(st, add) ==
    LET t0 == BigAdd(st.fq, add)
        t == IF BigGT(t0, Capacity) THEN Capacity ELSE t0
    IN  Then(sendPort([st EXCEPT !.fq = t], opDGF, S(Fmt012(t))),
             LAMBDA s : setFQ(s, Fmt012(t)))

\* Controller.addFQ
addFQ(st, add) ==
    LET t0 == BigAdd(st.fq, add)
        t == IF BigGT(t0, Capacity) THEN BigSub(t0, Capacity) ELSE t0
    IN  Then(sendPort([st EXCEPT !.fq = t], opDGF, S(Fmt012(t))),
             LAMBDA s : setFQ(s, Fmt012(t)))

\* Controller.subFQ
subFQ(st, sub) ==
    LET t0 == BigSub(st.fq, sub)
        t == IF BigLT(t0, BigZero) THEN BigOne ELSE t0
    IN  Then(sendPort([st EXCEPT !.fq = t], opDGF, S(Fmt012(t))),
             LAMBDA s : setFQ(s, Fmt012(t)))

\* the setter keeping the name of a port it could not open
setPortNameKeepsName(st, name, opens) ==
    LET st1 == [st EXCEPT !.fd = IF st.portName # "None" THEN "closed" ELSE @,
                          !.portName = name]
    IN  IF name = "None" THEN st1
        ELSE IF opens THEN [st1 EXCEPT !.fd = "open"]
        ELSE st1

\* Model.portName (setter); opens says whether serial.Serial succeeds
setPortName(st, name, opens) ==
    LET st1 == [st EXCEPT !.fd = IF st.portName # "None" THEN "closed" ELSE @,
                          !.portName = name]
    IN  IF name = "None" THEN st1
        ELSE IF opens THEN [st1 EXCEPT !.fd = "open"]
        ELSE [st1 EXCEPT !.portName = "None"]

\* selectPort leaving the 'device detected' indicator as it is
selectPortKeepsIndicator(st, name, opens) ==
    LET r == IF st.portName = "None"
             THEN Ok(setPortName(st, name, opens), <<Sink("serialButton", <<<<"Close">>>>)>>)
             ELSE Ok(setPortName(st, "None", opens), <<Sink("serialButton", <<<<"Select">>>>)>>)
    IN  Then(r, LAMBDA s : Ok(s, <<Sink("currentPort", <<>>)>>))

\* Controller.selectPort
selectPort(st, name, opens) ==
    LET r == IF st.portName = "None"
             THEN Ok(setPortName(st, name, opens), <<Sink("serialButton", <<<<"Close">>>>)>>)
             ELSE Ok(setPortName(st, "None", opens), <<Sink("serialButton", <<<<"Select">>>>)>>)
    IN  Then(Then(r, LAMBDA s : Ok(s, <<Sink("currentPort", <<>>)>>)),
             LAMBDA s : serialOK(s, FALSE))

----------------------------------------------------------------------------
(* The state machine                                                       *)

Cur == [portName |-> portName, fd |-> fd, fq |-> fq, dispFQ |-> dispFQ,
        hour |-> hour, minute |-> minute, second |-> second, job |-> job,
        pending |-> pending, sats |-> sats, deviceOK |-> deviceOK]

Commit(st) ==
    /\ portName' = st.portName /\ fd' = st.fd /\ fq' = st.fq /\ dispFQ' = st.dispFQ
    /\ hour' = st.hour /\ minute' = st.minute /\ second' = st.second
    /\ job' = st.job /\ pending' = st.pending /\ sats' = st.sats
    /\ deviceOK' = st.deviceOK

\* bounds of the model
MaxIdle == 1
MaxSats == 1
MaxOps == 3
MaxVaried == 1

Init ==
    /\ pc = "main" /\ portName = "None" /\ fd = "None"
    /\ cmdIdx = 0 /\ count = 0
    /\ fq = InitialFQ
    /\ dispFQ = <<"0", "0", "0", "0", "0", "0", "0", "0", "0", "0", "0">>
    /\ hour = 0 /\ minute = 0 /\ second = 0 /\ job = "None" /\ pending = 0
    /\ sats = <<>> /\ deviceOK = FALSE
    /\ act = "init" /\ line = <<>> /\ ev = <<>> /\ idle = 0 /\ hist = <<>> /\ nEv = 0
    /\ wire = <<>>

\* the query that opens the wait for the opcode at position i
Query(st, i) == sendPort(st, ResyncList[i], G)

\* One iteration of the loop of Controller.drive, up to the Tk update: the
\* read, the dispatch and, for a MIN line, the entry into updateStatus with
\* its first query.  raw is what the transport holds in front of the next
\* line terminator.  (self.rxChars, a running total shown in the debug
\* pane, is not kept.)
DriveOn(buff, reads) ==
    /\ \E r \in {IF portName # "None" /\ Len(buff) > 0
                 THEN Then(Ok(Cur, traceInsert(buff) \o <<Sink("rxChars", <<>>)>>),
                           LAMBDA s : dispatch(s, buff))
                 ELSE Ok(Cur, <<>>)} :
       \E starts \in {portName # "None" /\ ~r.exc /\ Slice(buff, 1, 4) = opMIN} :
       \E q \in {IF starts THEN Then(r, LAMBDA s : Query(s, 1)) ELSE r} :
           /\ Commit(q.st)
           /\ ev' = reads \o q.ev
           /\ line' = buff
           /\ pc' = IF q.exc THEN "crashed" ELSE IF starts THEN "resync" ELSE "main"
           /\ cmdIdx' = IF starts /\ ~q.exc THEN 1 ELSE 0
    /\ count' = 0 /\ idle' = 0
    /\ act' = "drive" /\ hist' = <<>>

Drive(raw) ==
    /\ pc = "main"
    /\ Len(sats) < MaxSats \/ Slice(raw, 1, 4) # opGSI
    /\ \E buff \in {readPort(Cur, raw)} : DriveOn(buff, <<>>)
    /\ UNCHANGED wire

\* the same iteration, with the transport given read by read
DriveBytes(avail, head) ==
    /\ pc = "main"
    /\ \E rd \in {readPortFrom(Cur, avail, head)} : DriveOn(rd.line, rd.ev)
    /\ UNCHANGED wire

\* One pass of the inner loop of Controller.updateStatus and, when the pass
\* leaves the loop (break, or count at the cap), the step of the outer loop
\* that follows it: the query for the next opcode, or the return to drive.
ResyncOn(msg, reads) ==
    /\ \E p \in {resyncPass(Cur, msg, cmdIdx, count)} :
       \E leaves \in {~p.r.exc /\ (p.matched \/ ~(p.count < ReadCap))} :
       \E more \in {cmdIdx < Len(ResyncList)} :
       \E q \in {IF leaves /\ more THEN Then(p.r, LAMBDA s : Query(s, cmdIdx + 1))
                 ELSE p.r} :
           /\ Commit(q.st)
           /\ ev' = reads \o q.ev
           /\ line' = msg
           /\ pc' = IF q.exc THEN "crashed"
                    ELSE IF leaves /\ ~more THEN "main" ELSE "resync"
           /\ cmdIdx' = IF q.exc THEN cmdIdx
                        ELSE IF leaves THEN (IF more THEN cmdIdx + 1 ELSE 0)
                        ELSE cmdIdx
           /\ count' = IF leaves /\ ~q.exc THEN 0 ELSE p.count
           /\ idle' = IF leaves /\ ~q.exc THEN 0
                      ELSE IF Len(msg) > 2 THEN idle
                      ELSE Min(idle + 1, MaxIdle)
    /\ act' = "resync"
    /\ UNCHANGED <<hist, nEv>>

Resync(raw) ==
    /\ pc = "resync"
    /\ Len(sats) < MaxSats \/ Slice(raw, 1, 4) # opGSI
    /\ \E msg \in {readPort(Cur, raw)} : ResyncOn(msg, <<>>)
    /\ UNCHANGED wire

\* the same pass, with the transport given read by read
ResyncBytes(avail, head) ==
    /\ pc = "resync"
    /\ \E rd \in {readPortFrom(Cur, avail, head)} : ResyncOn(rd.line, rd.ev)
    /\ UNCHANGED wire

\* The Tk timer fires a pending __tick callback (during root.update()).
Tick ==
    /\ pc = "main"
    /\ pending > 0
    /\ \E isJob \in BOOLEAN :
          /\ isJob => job = "live"
          /\ ~isJob => pending > (IF job = "live" THEN 1 ELSE 0)
          /\ \E r \in {Callback(tick([Cur EXCEPT !.pending = @ - 1,
                                                  !.job = IF isJob THEN "stale" ELSE @]))} :
                Commit(r.st) /\ ev' = r.ev
    /\ hist' = <<[op |-> "tick", k |-> 0, before |-> <<hour, minute, second>>]>>
    /\ act' = "tick" /\ line' = <<>>
    /\ UNCHANGED <<pc, cmdIdx, count, idle, wire>>

\* the button press handled wherever drive is, also inside updateStatus
SelectPortAnyTime(opens) ==
    /\ pc \in {"main", "resync"}
    /\ \E r \in {Callback(selectPort(Cur, "COM1", opens))} : Commit(r.st) /\ ev' = r.ev
    /\ act' = "select" /\ line' = <<>> /\ hist' = <<>>
    /\ UNCHANGED <<pc, cmdIdx, count, idle, nEv, wire>>

\* The user presses the Select / Close button of the serial tab.
SelectPort(opens) ==
    /\ pc = "main"
    /\ \E r \in {Callback(selectPort(Cur, "COM1", opens))} : Commit(r.st) /\ ev' = r.ev
    /\ act' = "select" /\ line' = <<>> /\ hist' = <<>>
    /\ UNCHANGED <<pc, cmdIdx, count, idle, nEv, wire>>

\* The user presses one of the '+' buttons: up100M .. up1c (k = 10 .. 0).
Up(k) ==
    /\ pc = "main"
    /\ \E r \in {Callback(addFQ(Cur, Pow10(k)))} : Commit(r.st) /\ ev' = r.ev
    /\ hist' = Slice(<<[op |-> "up", k |-> k, before |-> fq]>> \o hist, 0, 2)
    /\ act' = "up" /\ line' = <<>>
    /\ UNCHANGED <<pc, cmdIdx, count, idle, wire>>

\* The user presses one of the '-' buttons: down100M .. down1c.
Down(k) ==
    /\ pc = "main"
    /\ \E r \in {Callback(subFQ(Cur, Pow10(k)))} : Commit(r.st) /\ ev' = r.ev
    /\ hist' = Slice(<<[op |-> "down", k |-> k, before |-> fq]>> \o hist, 0, 2)
    /\ act' = "down" /\ line' = <<>>
    /\ UNCHANGED <<pc, cmdIdx, count, idle, wire>>

\* The host window is closed: root.update() raises TclError and drive ends.
Shutdown ==
    /\ pc = "main"
    /\ pc' = "closed"
    /\ act' = "close" /\ line' = <<>> /\ ev' = <<>> /\ hist' = <<>>
    /\ UNCHANGED <<portName, fd, cmdIdx, count, fq, dispFQ, hour, minute, second,
                   job, pending, sats, deviceOK, idle, nEv, wire>>

\* a call of Model.sendPort with the opcode cmd and the payload data
Sent(cmd, data) == [k |-> "send", cmd |-> cmd, data |-> data]

SendPort(cmd, data) ==
    /\ pc = "main"
    /\ \E r \in {Callback(sendPort(Cur, cmd, data))} :
          Commit(r.st) /\ ev' = <<Sent(cmd, data)>> \o r.ev
    /\ act' = "send" /\ line' = <<>> /\ hist' = <<>>
    /\ UNCHANGED <<pc, cmdIdx, count, idle, nEv, wire>>

\* Controller.sendPressed with the text d in the entry and the CR+LF box
\* ticked or not: the text is built and handed to Model.sendPortRaw, a
\* method Model does not have
sendPressed(st, d, crlf) ==
    LET text == IF crlf THEN d \o <<"\r", "\n">> ELSE d
    IN  Raise(st, <<>>, "AttributeError")

\* The user presses the Send button of the debug pane.
Pressed(d, crlf) == [k |-> "press", d |-> d, crlf |-> crlf]

SendPressed(d, crlf) ==
    /\ pc = "main"
    /\ \E r \in {Callback(sendPressed(Cur, d, crlf))} :
          Commit(r.st) /\ ev' = <<Pressed(d, crlf)>> \o r.ev
    /\ act' = "pass" /\ line' = <<>> /\ hist' = <<>>
    /\ UNCHANGED <<pc, cmdIdx, count, idle, nEv, wire>>

\* an event of the user interface, counted against the budget n
Budget(n) == nEv < n /\ nEv' = nEv + 1

----------------------------------------------------------------------------
(* The transport's lines.  The device frames a message as {OPC} payload.   *)

Frame(op, payload) == <<"{">> \o op \o <<"}", " ">> \o payload
Bare(op) == <<"{">> \o op \o <<"}">>
opXYZ == <<"X", "Y", "Z">>

T123456 == <<"1", "2", ":", "3", "4", ":", "5", "6">>
T235959 == <<"2", "3", ":", "5", "9", ":", "5", "9">>
D12 == <<"0", "0", "0", "0", "1", "4", "0", "9", "7", "1", "0", "0">>

\* a well-formed payload for each opcode of the resync list
ValidPayload ==
    << <<"N">>, <<"4", "8", "0">>, <<"N">>, <<"0", "1", " ", "E">>, <<"G">>, <<"N">>,
       <<"W", "1", "A", "W">>, <<"F", "N", "2", "0">>, <<"2", "3">>, <<"T", "X">>,
       D12, <<"0", "1", "0", "1", "1">>, <<"1">>, <<"2">>, <<"1">>, <<"5">>,
       <<"2", "6", "0", "0">>, <<"A", " ", "0", "3">> >>

\* the device's reply to the query for the opcode at position i
Reply(i) == Frame(ResyncList[i], ValidPayload[i])
Replies == {Reply(i) : i \in 1..Len(ResyncList)}

\* a push frame that no handler objects to
Filler == Bare(<<"T", "C", "C">>)

\* lines offered to the protocol engine besides the replies: nothing
\* waiting, noise, short lines, replies and push frames with invalid
\* payloads, time frames, and opcodes the table does not hold
OtherLines ==
    { <<>>, <<"x", "{">>, <<"{">>, <<"{", "M", "I", "N">>,
      Frame(opMIN, <<"u", "p">>), Filler,
      Frame(opCCM, <<"X">>), Bare(opCCM), Frame(opOTP, <<"x">>),
      Bare(opOSM), Frame(opOBD, <<"x", "x">>),
      Frame(opDGF, <<"1", "2">>),
      Frame(opFLP, <<"x", "x">>), Frame(opFLP, <<"A", " ", "1", "6">>),
      Frame(opGTM, T123456), Frame(opGTM, <<"1", "2", "3", "4", "5", "6">>),
      Frame(opGTM, <<"1", "2", ":", "x", ":", "0">>),
      Frame(opGLC, <<"X">>), Frame(opTFQ, <<"a">>), Frame(opMPS, <<"x">>),
      Frame(opTBN, <<"x">>), Frame(opTWS, <<"x", "x">>), Frame(opTON, <<"X">>),
      Frame(opXYZ, <<"1">>), <<"{", "X", "Y", "Z", " ", "1">> }

Lines == Replies \cup OtherLines

\* what the transport may hold during a resync wait: any line while fewer
\* than MaxVaried frames of the wait were counted, and after that nothing,
\* the filler, or the reply awaited
WaitLines ==
    IF count < MaxVaried THEN Lines ELSE {<<>>, Filler, Reply(cmdIdx)}

DriveStep == \E raw \in Lines : Drive(raw) /\ UNCHANGED nEv
ResyncStep == \E raw \in WaitLines : Resync(raw)
PressSelect == \E opens \in BOOLEAN : SelectPort(opens)

Next == DriveStep \/ ResyncStep \/ PressSelect \/ Shutdown

Spec == Init /\ [][Next]_vars

----------------------------------------------------------------------------
(* The signal generator tab alone: the '+' and '-' buttons pressed from    *)
(* the state the constructor leaves, with the port closed or open.         *)

Connect == fd = "None" /\ PressSelect
PressUp == \E k \in Exponents : Up(k) /\ Budget(MaxOps)
PressDown == \E k \in Exponents : Down(k) /\ Budget(MaxOps)

NextFQ == Connect \/ PressUp \/ PressDown

SpecFQ == Init /\ [][NextFQ]_vars

----------------------------------------------------------------------------
(* The signal generator tab with a device that reports its frequency: DGF  *)
(* frames put the register on values of the whole range.                   *)

DigitsOf(t) == Fmt012(t)

\* register values the device reports: both ends of the range, values next
\* to them, and values in between
Reported ==
    { <<0, 1>>, <<0, 2>>, <<0, 999999>>, <<1, 0>>, <<14, 97100>>, <<99, 999999>>,
      <<90000, 0>>, <<99999, 0>>, <<99999, 999990>>, <<99999, 999999>>, <<10^5, 0>> }

FQLines == {Frame(opDGF, DigitsOf(t)) : t \in Reported}

\* the device reports a value; from the value reported (or the one the
\* constructor set) the user presses one '+' button and then one '-' button
ReportFQ == \E raw \in FQLines : Drive(raw) /\ UNCHANGED nEv
Increase ==
    \E k \in Exponents :
        /\ act = "init" \/ (act = "drive" /\ Len(line) > 0)
        /\ Up(k) /\ UNCHANGED nEv
Decrease ==
    \E k \in Exponents : Len(hist) = 1 /\ hist[1].op = "up" /\ Down(k) /\ UNCHANGED nEv

NextFQDev == Connect \/ ReportFQ \/ Increase \/ Decrease

SpecFQDev == Init /\ [][NextFQDev]_vars

----------------------------------------------------------------------------
(* The frequency register with a device that reports payloads of all      *)
(* shapes in its DGF frames.                                               *)

\* DGF payloads: the twelve digits of values of the range, twelve digits
\* of values outside it, and texts that are not twelve digits
DGFPayloads ==
    {DigitsOf(t) : t \in Reported}
        \cup { DigitsOf(BigZero), DigitsOf(<<10^5, 1>>), DigitsOf(<<999999, 999999>>) }
        \cup { <<>>, <<"1", "2">>,
               <<"0", "0", "0", "1", "4", "0", "9", "7", "1", "0", "0">>,
               <<"0", "0", "0", "0", "0", "1", "4", "0", "9", "7", "1", "0", "0">>,
               <<"0", "0", "0", "0", "1", "4", "0", "9", "7", "1", "0", "x">>,
               <<"+", "0", "0", "0", "1", "4", "0", "9", "7", "1", "0", "0">>,
               <<"0", "0", "0", "0", "1", "4", ".", "9", "7", "1", "0", "0">> }

ReportDGF == \E p \in DGFPayloads : Drive(Frame(opDGF, p)) /\ UNCHANGED nEv

NextDGF == Connect \/ ReportDGF

SpecDGF == Init /\ [][NextDGF]_vars

----------------------------------------------------------------------------
(* The mirror clock with a device that reports well-formed times: GTM     *)
(* frames set the clock and the Tk timer ticks it through the whole day.   *)

ClockTexts ==
    { T123456, T235959,
      <<"0", "0", ":", "0", "0", ":", "0", "0">>,
      <<"9", "9", ":", "9", "9", ":", "9", "9">> }

ClockLines == {Frame(opGTM, t) : t \in ClockTexts}

ReportTime == \E raw \in ClockLines : Drive(raw) /\ UNCHANGED nEv
TimerStep == Tick /\ UNCHANGED nEv

NextClock == Connect \/ ReportTime \/ TimerStep

SpecClock == Init /\ [][NextClock]_vars

----------------------------------------------------------------------------
(* The mirror clock with a device that also reports malformed times, over  *)
(* the first ticks after a time was set.                                   *)

MaxTicks == 3

BadTexts ==
    { <<"b", "a", "d">>,
      <<"1", "2", "3", "4", "5", "6">>,
      <<"1", "2", ":", "3", "4">>,
      <<"1", "2", ":", "3", "4", ":", "5", "6", ":", "7">>,
      <<"1", "2", ":", "x", "x", ":", "0", "0">>,
      <<":", ":">> }

AnyTime == \E t \in ClockTexts \cup BadTexts : Drive(Frame(opGTM, t)) /\ UNCHANGED nEv
FewTicks == Tick /\ Budget(MaxTicks)

NextClockDev == Connect \/ AnyTime \/ FewTicks

SpecClockDev == Init /\ [][NextClockDev]_vars

----------------------------------------------------------------------------
(* The transport read by read: what readPort makes of the bytes the        *)
(* device delivers, and what drive and updateStatus make of the line.      *)

\* the bytes of a line and its terminator
Stream(text, term) == Append(text, term)

\* with the payload right after the brace, as MIN frames sometimes come
Tight(op, payload) == Bare(op) \o payload

\* what the device delivers: frames ended by CR or LF, with and without
\* the space before the payload, with blanks at the end and with reads
\* that time out in between; lines that do not begin with a brace; a bare
\* terminator; and text after which the device falls silent
Heads ==
    { Stream(Filler, "\r"),
      Stream(Frame(opFPN, <<"a", " ", "b">>), "\r"),
      Stream(Tight(opFPN, <<"v", "1">>), "\n"),
      Stream(Tight(opFPN, <<"v", " ", "1">>), "\n"),
      Stream(<<"{", "F", "P", "N", " ", "v", "1">>, "\r"),
      Stream(Bare(opFPN), "\r"),
      Stream(Tight(opMIN, <<"u", "p">>), "\n"),
      Stream(<<"x", "M", "I", "N", " ", "u", "p">>, "\r"),
      Stream(<<" ">> \o Filler, "\r"),
      <<"\n">>,
      <<"{", "T", "C", "", "", "C", "}", " ", " ", "\r">>,
      Frame(opFPN, <<"a">>),
      <<"x", "y">> }

\* in a resync wait also the reply awaited, and that reply with its brace
\* replaced
WaitHeads ==
    (IF count < MaxVaried THEN Heads ELSE {})
        \cup {Stream(Reply(cmdIdx), "\r"), Stream(<<"x">> \o Tail(Reply(cmdIdx)), "\r")}

\* in_waiting is 0, or the number of bytes delivered
ReadDrive == \E head \in Heads : \E avail \in {0, Len(head)} :
                 DriveBytes(avail, head) /\ UNCHANGED nEv
ReadResync ==
    /\ pc = "resync"
    /\ \E head \in WaitHeads : \E avail \in {0, Len(head)} : ResyncBytes(avail, head)

NextRead == PressSelect \/ ReadDrive \/ ReadResync

SpecRead == Init /\ [][NextRead]_vars

----------------------------------------------------------------------------
(* Model.sendPort called with opcodes and payloads of all shapes           *)

\* texts of up to three characters over a letter, a blank and a CR
RECURSIVE TextsUpTo(_)
TextsUpTo(n) ==
    IF n = 0 THEN {<<>>}
    ELSE TextsUpTo(n - 1)
            \cup {Append(t, c) : t \in TextsUpTo(n - 1), c \in {"G", " ", "\r"}}

SendOpcodes == {<<>>, opCCM, opDGF, <<"X">>}

Send == \E cmd \in SendOpcodes : \E data \in TextsUpTo(3) : SendPort(cmd, data)

NextSend == PressSelect \/ Send

SpecSend == Init /\ [][NextSend]_vars

----------------------------------------------------------------------------
(* The host loop as a whole: the timer and the buttons are served by the   *)
(* root.update() of drive, between the iterations of its loop.             *)

\* lines of the main loop: the frame that starts updateStatus, time
\* frames, a push frame, or nothing
BusyLines ==
    { <<>>, Frame(opMIN, <<"u", "p">>), Filler,
      Frame(opGTM, T123456), Frame(opGTM, T235959) }

BusyDrive == \E raw \in BusyLines : Drive(raw) /\ UNCHANGED nEv

\* in a wait the device sends the reply, or first a time frame
BusyWait ==
    /\ pc = "resync"
    /\ \E raw \in (IF count < MaxVaried
                   THEN {Frame(opGTM, T123456), Frame(opGTM, T235959)} ELSE {})
                      \cup {<<>>, Reply(cmdIdx)} : Resync(raw)

BusyTick == Tick /\ Budget(MaxTicks)
BusyUp == Up(8) /\ Budget(MaxTicks)

NextBusy == PressSelect \/ BusyDrive \/ BusyWait \/ BusyTick \/ BusyUp

SpecBusy == Init /\ [][NextBusy]_vars

----------------------------------------------------------------------------
(* The transport as a queue of bytes: the device sends bursts of lines and *)
(* readPort takes bytes from the front, one for each fd.read(1).           *)

CR == "\r"
LF == "\n"

\* what the device sends at once: two lines ended by CR LF and CR, a line
\* without a brace and a frame with a blank at its end, a frame cut short
\* with nothing after it, and empty lines in front of a MIN frame and the
\* reply to the first query
Bursts ==
    { Filler \o <<CR, LF>> \o Frame(opFPN, <<"a">>) \o <<CR>>,
      <<"x", "y", LF>> \o Frame(opFPN, <<"b", " ">>) \o <<LF>>,
      <<"{", "F", "P">>,
      <<CR, CR>> \o Tight(opMIN, <<"u", "p">>) \o <<LF>> \o Reply(1) \o <<CR>> }

\* the bytes left in the transport by a call of readPort that made the
\* accesses evs: each fd.read(1) of the loop took one byte while there
\* were bytes, and timed out after that
leftBy(bytes, evs) ==
    IF Reads(evs) = <<>> THEN bytes
    ELSE From(bytes, Min(Reads(evs)[1].n, Len(bytes)))

\* the device sends a burst while the port is open and the queue is empty
Deliver ==
    /\ pc \in {"main", "resync"} /\ fd = "open" /\ wire = <<>>
    /\ \E b \in (IF pc = "main" THEN Bursts
                 ELSE (IF count < MaxVaried THEN Bursts ELSE {})
                          \cup {Reply(cmdIdx) \o <<CR, LF>>}) : wire' = b
    /\ act' = "deliver" /\ line' = <<>> /\ ev' = <<>>
    /\ UNCHANGED <<pc, portName, fd, cmdIdx, count, fq, dispFQ, hour, minute,
                   second, job, pending, sats, deviceOK, idle, hist, nEv>>

\* an iteration of drive, and a pass of updateStatus, on the queue
DriveWire ==
    /\ pc = "main"
    /\ \E rd \in {readPortFrom(Cur, Len(wire), wire)} :
          DriveOn(rd.line, rd.ev) /\ wire' = leftBy(wire, rd.ev)
    /\ UNCHANGED nEv

ResyncWire ==
    /\ pc = "resync"
    /\ \E rd \in {readPortFrom(Cur, Len(wire), wire)} :
          ResyncOn(rd.line, rd.ev) /\ wire' = leftBy(wire, rd.ev)

NextWire == Connect \/ Deliver \/ DriveWire \/ ResyncWire

SpecWire == Init /\ [][NextWire]_vars

----------------------------------------------------------------------------
(* The Send button of the debug pane pressed with texts of all shapes      *)

PressSend == \E d \in TextsUpTo(3) : \E crlf \in BOOLEAN : SendPressed(d, crlf)

NextPass == PressSelect \/ PressSend

SpecPass == Init /\ [][NextPass]_vars

----------------------------------------------------------------------------
(* Properties of the protocol engine (Spec)                                *)

\* the last step read a line from the transport
ReadStep == act \in {"drive", "resync"}

\* C1: a resync wait makes at most ReadCap reads: while the wait for an
\* opcode goes on, fewer than ReadCap lines were read for it (count frames
\* of three characters or more, idle reads that returned less).
ResyncReadsBounded == pc = "resync" => count + idle < ReadCap

\* C2: no line makes a handler raise an error that ends Controller.drive.
DriveSurvivesEveryLine == pc # "crashed"

\* the payloads the validation of a handler turns down
Rejected(op, data) ==
    CASE op \in {opOTP, opDPD, opTFQ, opMPS, opTBN} -> ~IsDigit(data)
      [] op = opDGF -> ~(Len(data) = 12 /\ IsDigit(data))
      [] op \in {opCCM, opOSM} -> Len(data) < 1 \/ At(data, 0) \notin {"N", "W", "S"}
      [] op = opOLC -> Len(data) < 1 \/ At(data, 0) \notin {"G", "M"}
      [] op = opOPW -> Len(data) < 1 \/ At(data, 0) \notin {"N", "A"}
      [] op \in {opTON, opGLC} -> Len(data) < 1 \/ At(data, 0) \notin {"T", "F"}
      [] op = opOBD -> ~(IsDigit(Slice(data, 0, 2)) /\ Len(data) > 3
                         /\ At(data, 3) \in {"E", "D"})
      [] op = opTWS -> ~IsDigit(Slice(data, 0, 2))
      [] op = opFLP -> ~IsDigit(From(data, 2))
      [] OTHER -> FALSE

\* updates of the display, the debug trace of the commands sent left aside
Display(evs) == SelectSeq(evs, LAMBDA e : e.k = "sink" /\ e.f # "traceInsert")

\* C3: a validating handler given a payload it turns down writes the one
\* query [OPC] G for its own opcode and updates nothing on the display.
InvalidPayloadQueried ==
    (ReadStep /\ Len(Calls(ev)) = 1 /\ Rejected(Calls(ev)[1].op, Calls(ev)[1].data))
        => /\ Writes(Handled(ev)) = <<Write(encodeCommand(Calls(ev)[1].op, G))>>
           /\ Display(Handled(ev)) = <<>>

\* C4: in a resync wait the line that carries the opcode awaited ends the
\* wait, and the next command sent is the query for the opcode that follows
\* it in the list (after the last opcode, control returns to drive).
ReplyEndsWait ==
    [][(pc = "resync" /\ act' = "resync" /\ Len(line') > 2
            /\ Slice(line', 1, 4) = ResyncList[cmdIdx])
        => IF cmdIdx < Len(ResyncList)
           THEN /\ pc' = "resync" /\ cmdIdx' = cmdIdx + 1 /\ count' = 0
                /\ ev'[Len(ev')] = Write(encodeCommand(ResyncList[cmdIdx + 1], G))
           ELSE pc' = "main"]_vars

\* C5: every frame read in a resync wait is handed to handleMessage, and a
\* frame of the command table to its handler with its payload, in the step
\* that read it and before the wait goes on or ends: the handler has
\* returned (a GTM handler having set the displayed time and the clock)
\* before the reply awaited is recognised and the next query is written.
DispatchedInOrder ==
    [][(pc = "resync" /\ act' = "resync" /\ Len(line') > 2)
        => /\ Pos(ev', "enter") > 0
           /\ (Len(line') >= 5 /\ Slice(line', 1, 4) \in handlers)
                 => Calls(ev') = <<Call(Slice(line', 1, 4), payloadOf(line'))>>
           /\ pc' # "crashed"
                 => /\ Pos(ev', "leave") > Pos(ev', "enter")
                    /\ Writes(SubSeq(ev', 1, Pos(ev', "enter"))) = <<>>
                    /\ Calls(ev') # <<>> => Pos(ev', "ret") < Pos(ev', "leave")
                    /\ (Calls(ev') # <<>> /\ Calls(ev')[1].op = opGTM)
                          => Display(Handled(ev'))[1] = Sink("curtime", <<payloadOf(line')>>)
                    /\ (cmdIdx' # cmdIdx /\ pc' = "resync")
                          => /\ ev'[Len(ev')] = Write(encodeCommand(ResyncList[cmdIdx'], G))
                             /\ Writes(SubSeq(ev', Pos(ev', "leave"), Len(ev')))
                                   = <<Write(encodeCommand(ResyncList[cmdIdx'], G))>>
                    /\ (cmdIdx' = cmdIdx /\ pc' = "resync")
                          => ev'[Len(ev')] = Leave]_vars

\* an unsolicited GTM frame was dispatched in the wait for DCS, which goes on
GTMBeforeDCS ==
    /\ act = "resync" /\ pc = "resync" /\ ResyncList[cmdIdx] = opDCS /\ count > 0
    /\ Calls(ev) = <<Call(opGTM, T123456)>>
    /\ hour = 12 /\ minute = 34 /\ second = 56

\* the line read by a step carries an opcode the command table does not hold
UnknownOpcode(l) == Len(l) >= 5 /\ Slice(l, 1, 4) \notin handlers

\* a line the device framed: braces around the opcode
Framed(l) == At(l, 0) = "{" /\ At(l, 4) = "}"

\* C6 as stated: a line with an opcode the table does not hold invokes no
\* handler, writes nothing, changes no session or sink state and shows as a
\* diagnostic only; the loop goes on.
UnknownOpcodeOnlyDiagnosed ==
    [][(act' \in {"drive", "resync"} /\ UnknownOpcode(line'))
        => /\ Dispatched(ev') = <<Diag("unknown")>>
           /\ UNCHANGED <<fq, dispFQ, hour, minute, second, job, pending, sats,
                          portName, fd, deviceOK>>
           /\ pc' \in {"main", "resync"}]_vars

\* C6: a line with an opcode the table does not hold invokes no handler,
\* writes nothing and changes no session or sink state, except that a
\* framed line sets the device indicator to OK; besides that it shows as a
\* diagnostic only, and the loop goes on.
UnknownOpcodeDetectsDevice ==
    [][(act' \in {"drive", "resync"} /\ UnknownOpcode(line'))
        => /\ Dispatched(ev') =
                 (IF Framed(line') THEN <<Sink("serialOK", <<<<"T">>>>)>> ELSE <<>>)
                     \o <<Diag("unknown")>>
           /\ deviceOK' = (deviceOK \/ Framed(line'))
           /\ UNCHANGED <<fq, dispFQ, hour, minute, second, job, pending, sats,
                          portName, fd>>
           /\ pc' \in {"main", "resync"}]_vars

\* drive read a framed line with the opcode XYZ and goes on
UnknownFrameRead ==
    /\ act = "drive" /\ pc = "main" /\ line = Frame(opXYZ, <<"1">>)
    /\ Diags(ev) = <<Diag("unknown")>> /\ Calls(ev) = <<>> /\ deviceOK

----------------------------------------------------------------------------
(* Properties of the frequency register (SpecFQ, SpecFQDev)                *)

\* C7: the register lies in 1 .. 10^11 after any sequence of presses of the
\* '+' and '-' buttons from the value the constructor sets.
FQInRange == BigGT(fq, BigZero) /\ ~BigGT(fq, Capacity)

\* the last two steps pressed '+' and then '-' for the same digit, from a
\* value v in 1 .. 10^11 with v + a not above 10^11
IncreaseThenDecrease ==
    /\ Len(hist) = 2 /\ hist[1].op = "down" /\ hist[2].op = "up"
    /\ hist[1].k = hist[2].k
    /\ BigGT(hist[2].before, BigZero) /\ ~BigGT(hist[2].before, Capacity)
    /\ ~BigGT(BigAdd(hist[2].before, Pow10(hist[2].k)), Capacity)

\* C8: an increase by a per-digit amount followed by a decrease by the same
\* amount returns the register to its value v, for v in 1 .. 10^11 with
\* v + a not above 10^11.
IncreaseDecreaseIdentity == IncreaseThenDecrease => fq = hist[2].before

\* 99999999999 went up by 1 to the capacity, unwrapped, and down again
BackFromCapacity ==
    /\ IncreaseThenDecrease /\ hist[2].before = <<99999, 999999>> /\ hist[2].k = 0
    /\ hist[1].before = Capacity /\ fq = <<99999, 999999>>

----------------------------------------------------------------------------
(* Properties of the mirror clock (SpecClock, SpecClockDev)                *)

\* a text the setter of MC.time cannot take for a time: not three fields
\* between colons, or a field that int() turns down
Malformed(data) ==
    \/ Len(SplitColon(data)) # 3
    \/ \E i \in 1..3 : ~IntOK(SplitColon(data)[i])

\* C9: MC.time set to a malformed text raises no error and leaves a running
\* clock as it was: the fields keep their values and the timer stays armed.
MalformedTimeRejected ==
    [][(act' = "drive" /\ Calls(ev') # <<>> /\ Calls(ev')[1].op = opGTM
            /\ Malformed(Calls(ev')[1].data) /\ job = "live" /\ pending = 1)
        => /\ Raises(ev') = <<>> /\ pc' = "main"
           /\ hour' = hour /\ minute' = minute /\ second' = second
           /\ job' = "live" /\ pending' = 1]_vars

\* seconds since midnight
SecondOfDay(h, m, s) == (h * 60 + m) * 60 + s

\* C10: from an in-range clock value one tick advances the clock by one
\* second modulo 24 hours, the fields staying in range, publishes the new
\* time and arms the next tick.
TickAdvancesOneSecond ==
    [][(act' = "tick" /\ hour \in 0..23 /\ minute \in 0..59 /\ second \in 0..59)
        => /\ hour' \in 0..23 /\ minute' \in 0..59 /\ second' \in 0..59
           /\ SecondOfDay(hour', minute', second')
                 = (SecondOfDay(hour, minute, second) + 1) % (24 * 60 * 60)
           /\ ev' = <<Sink("curtime", <<TimeText(hour', minute', second')>>)>>
           /\ job' = "live" /\ pending' = pending]_vars

\* the tick at 23:59:59 published 00:00:00
MidnightTick ==
    /\ act = "tick" /\ hist[1].before = <<23, 59, 59>>
    /\ hour = 0 /\ minute = 0 /\ second = 0
    /\ ev = <<Sink("curtime", <<<<"0", "0", ":", "0", "0", ":", "0", "0">>>>)>>
    /\ job = "live" /\ pending = 1

\* C11: the fields of the mirror clock stay in range whatever texts the
\* GTM frames carry and however often the timer ticks.
ClockInRange == hour \in 0..23 /\ minute \in 0..59 /\ second \in 0..59

----------------------------------------------------------------------------
(* Properties of the transport and of the decoding (SpecRead)              *)

\* the text after the first space of s (nothing without a space)
RECURSIVE AfterSpace(_)
AfterSpace(s) ==
    IF Len(s) = 0 THEN <<>> ELSE IF Head(s) = " " THEN Tail(s) ELSE AfterSpace(Tail(s))

\* C12 as stated: the handler is given the three characters after the
\* brace as opcode and, as payload, the text after the first space that
\* follows the opcode, or nothing when no space follows.
PayloadAfterSpace ==
    (ReadStep /\ Calls(ev) # <<>>)
        => Calls(ev) = <<Call(Slice(line, 1, 4), AfterSpace(From(line, 4)))>>

\* C12: for a line of five characters or more that carries an opcode of
\* the table, the handler is given the characters 2 to 4 as opcode and as
\* payload the text from the seventh character on when the sixth is a
\* space, the text from the sixth character on when it is not, and nothing
\* when the line has five characters.
PayloadByPosition ==
    (ReadStep /\ Len(line) >= 5 /\ SubSeq(line, 2, 4) \in handlers)
        => Calls(ev) =
              <<Call(SubSeq(line, 2, 4),
                     IF Len(line) = 5 THEN <<>>
                     ELSE IF line[6] = " " THEN SubSeq(line, 7, Len(line))
                     ELSE SubSeq(line, 6, Len(line)))>>

\* {FPN}v 1 was read: the handler got the payload "v 1"
TightPayloadRead ==
    /\ act = "drive" /\ line = Tight(opFPN, <<"v", " ", "1">>)
    /\ Calls(ev) = <<Call(opFPN, <<"v", " ", "1">>)>> /\ pc = "main"

\* the text the read loop of the last step kept is not empty and does not
\* begin with a brace
Unbraced(evs) ==
    /\ Reads(evs) # <<>> /\ Len(Reads(evs)[1].got) > 0
    /\ Reads(evs)[1].got[1] # "{"

\* C13: a line that does not begin with '{' yields no frame: readPort
\* returns the empty string, nothing is dispatched or written, drive starts
\* no resync, and a resync wait neither ends nor counts the line.
UnbracedLineDropped ==
    [][(act' \in {"drive", "resync"} /\ Unbraced(ev'))
        => /\ line' = <<>>
           /\ Pos(ev', "enter") = 0 /\ Calls(ev') = <<>> /\ Writes(ev') = <<>>
           /\ pc' = pc
           /\ pc = "resync" => (cmdIdx' = cmdIdx /\ count' = count)
           /\ UNCHANGED <<fq, dispFQ, hour, minute, second, job, pending, sats,
                          portName, fd, deviceOK>>]_vars

\* in the wait for CCM the line xCCM} N was read: the wait goes on
UnbracedReplyRead ==
    /\ act = "resync" /\ pc = "resync" /\ cmdIdx = 1 /\ Unbraced(ev)
    /\ Reads(ev)[1].got = <<"x">> \o Tail(Reply(1)) /\ line = <<>>

\* C18: readPort returns the empty string without a read when the port is
\* not selected or the transport reports no byte waiting.
NoReadWithoutBytes ==
    (ReadStep /\ (portName = "None" \/ (Probes(ev) # <<>> /\ Probes(ev)[1].n < 1)))
        => line = <<>> /\ Reads(ev) = <<>> /\ Pos(ev, "enter") = 0

\* drive found nothing waiting on an open port
NothingWaiting ==
    /\ act = "drive" /\ portName # "None" /\ fd = "open"
    /\ ev = <<Probe(0)>> /\ line = <<>>

\* C19: after a read loop that ran to its ceiling without a CR or LF the
\* text it kept is not returned as a line and not dispatched.
CeilingIsFatal ==
    (ReadStep /\ Reads(ev) # <<>> /\ Reads(ev)[1].end = "ceiling")
        => line = <<>> /\ Pos(ev, "enter") = 0

----------------------------------------------------------------------------
(* Further properties of the resync routine (Spec)                         *)

\* the writes updateStatus made itself in a step: those after the return
\* of handleMessage, or all of them when the step dispatched nothing
RoutineWrites(evs) ==
    IF Pos(evs, "enter") = 0 THEN Writes(evs)
    ELSE IF Pos(evs, "leave") = 0 THEN <<>>
    ELSE Writes(SubSeq(evs, Pos(evs, "leave"), Len(evs)))

\* C14: a run of updateStatus sends one query [OPC] G for each opcode of
\* its list, in the order of the list and each when the wait for the
\* opcode before it has ended; the run ends when the wait for the last
\* opcode has ended.
OneQueryEach ==
    [][/\ (pc = "main" /\ pc' = "resync")
            => cmdIdx' = 1 /\ RoutineWrites(ev') = <<Write(encodeCommand(ResyncList[1], G))>>
       /\ (pc = "resync" /\ act' = "resync")
            => /\ pc' = "resync" => cmdIdx' \in {cmdIdx, cmdIdx + 1}
               /\ RoutineWrites(ev') =
                     IF pc' = "resync" /\ cmdIdx' = cmdIdx + 1
                     THEN <<Write(encodeCommand(ResyncList[cmdIdx'], G))>> ELSE <<>>
               /\ pc' # "resync" => (pc' = "main" /\ cmdIdx = Len(ResyncList))]_vars

\* C15: when the line that brings the count of a wait to the cap has been
\* dispatched and does not carry the opcode awaited, updateStatus goes on
\* to the next opcode (or returns after the last one) and does not write
\* the query of the opcode it leaves again; in no pass does it go back in
\* its list or write a query without moving on.
CapMovesOn ==
    [][(pc = "resync" /\ act' = "resync")
        => /\ (count = ReadCap - 1 /\ Len(line') > 2 /\ Pos(ev', "leave") > 0
                  /\ Slice(line', 1, 4) # ResyncList[cmdIdx])
                 => /\ IF cmdIdx < Len(ResyncList)
                       THEN /\ pc' = "resync" /\ cmdIdx' = cmdIdx + 1 /\ count' = 0
                            /\ RoutineWrites(ev')
                                  = <<Write(encodeCommand(ResyncList[cmdIdx + 1], G))>>
                       ELSE pc' = "main" /\ RoutineWrites(ev') = <<>>
                    /\ \A i \in 1..Len(ev') :
                          ev'[i] # Write(encodeCommand(ResyncList[cmdIdx], G))
           /\ pc' = "resync"
                 => /\ cmdIdx' >= cmdIdx
                    /\ RoutineWrites(ev') # <<>> => cmdIdx' > cmdIdx]_vars

\* the wait for CCM ended at the cap on a TCC frame and [OTP] G was sent
CapReached ==
    /\ act = "resync" /\ pc = "resync" /\ cmdIdx = 2 /\ count = 0
    /\ line = Filler /\ ev[Len(ev)] = Write(encodeCommand(opOTP, G))

----------------------------------------------------------------------------
(* Properties of Model.sendPort (SpecSend)                                 *)

\* C16: with an opcode the bytes written are '[' opcode '] ' payload CR LF;
\* without an opcode they are the payload and nothing more.
CommandBytes ==
    (act = "send" /\ fd = "open")
        => Writes(ev) =
              <<Write(IF Len(ev[1].cmd) > 0
                      THEN <<"[">> \o ev[1].cmd \o <<"]", " ">> \o ev[1].data
                               \o <<"\r", "\n">>
                      ELSE ev[1].data)>>

\* the payload "G" CR was sent without an opcode, as it is
RawPayloadSent ==
    /\ act = "send" /\ fd = "open" /\ ev[1] = Sent(<<>>, <<"G", "\r">>)
    /\ Writes(ev) = <<Write(<<"G", "\r">>)>>

----------------------------------------------------------------------------
(* Further properties of the frequency register (SpecFQ, SpecFQDev)        *)

\* C17: after a press of a '+' or '-' button with the port open one command
\* [DGF] S <digits> was written, with the twelve digits of the register,
\* and the digits on the display denote the register, for every register
\* value in 1 .. 10^11.
RegisterShown ==
    (act \in {"up", "down"} /\ fd = "open"
         /\ BigGT(fq, BigZero) /\ ~BigGT(fq, Capacity))
        => /\ Writes(ev) = <<Write(encodeCommand(opDGF, S(Fmt012(fq))))>>
           /\ BigOfDigits(dispFQ) = fq

\* C20: a press of a '-' button leaves old - amount in the register when
\* that is 1 or more, and 1 when it is less.
DecreaseClampsToOne ==
    (Len(hist) > 0 /\ hist[1].op = "down")
        => fq = IF BigLT(BigSub(hist[1].before, Pow10(hist[1].k)), BigOne)
                THEN BigOne
                ELSE BigSub(hist[1].before, Pow10(hist[1].k))

\* C21: a press of a '+' button leaves old + amount in the register when
\* that is at most 10^11, and old + amount - 10^11 when it is more, with
\* the port open or not.
IncreaseAddsOrWraps ==
    (Len(hist) > 0 /\ hist[1].op = "up")
        => LET sum == BigAdd(hist[1].before, Pow10(hist[1].k))
           IN  /\ ~BigGT(sum, Capacity) => fq = sum
               /\ BigGT(sum, Capacity) => BigAdd(fq, Capacity) = sum

\* 99999999999 + 100 gave 99
WrapsToNinetyNine ==
    /\ Len(hist) > 0 /\ hist[1].op = "up" /\ hist[1].k = 2
    /\ hist[1].before = <<99999, 999999>> /\ fq = <<0, 99>>

----------------------------------------------------------------------------
(* Further properties of the protocol engine (Spec)                        *)

\* C22: an iteration of drive enters updateStatus exactly when the line it
\* read was handed to the handler of MIN, and then after that handler has
\* returned.
ResyncOnlyAfterMIN ==
    [][(pc = "main" /\ act' = "drive")
        => /\ pc' = "resync"
                 => \E i \in 1..Len(ev') :
                       /\ ev'[i] = Ret(opMIN)
                       /\ \A j \in 1..i : ev'[j].k # "write"
           /\ (\E i \in 1..Len(ev') : ev'[i].k = "call" /\ ev'[i].op = opMIN)
                 => pc' = "resync"]_vars

\* C27: a line of fewer than five characters invokes no handler, does not
\* make drive enter updateStatus, and does not end a wait of updateStatus
\* as the reply awaited.
ShortLineDiscarded ==
    [][(act' \in {"drive", "resync"} /\ Len(line') > 0 /\ Len(line') < 5)
        => /\ Calls(ev') = <<>>
           /\ pc = "main" => pc' = "main"
           /\ (pc = "resync" /\ count < ReadCap - 1)
                 => pc' = "resync" /\ cmdIdx' = cmdIdx]_vars

----------------------------------------------------------------------------
(* Further properties of the mirror clock (SpecClockDev)                   *)

\* C23: at most one __tick callback is pending in the timer queue, and it
\* is the one MC._job names.
OneTimerPending == pending <= 1 /\ (pending = 1 => job = "live")

\* a timer is pending after a time was set on a clock that had ticked
SetWhileRunning == act = "drive" /\ Len(line) > 0 /\ nEv >= 1 /\ pending = 1

\* C24: a time frame with a well-formed time leaves the parsed hour, minute
\* and second in the clock and exactly one timer pending, whether the clock
\* was never set, running, or stopped by a malformed time.
WellFormedTimeLocks ==
    [][(act' = "drive" /\ Len(line') = 14 /\ From(line', 6) \in ClockTexts)
        => /\ hour' = DigitsVal(Slice(line', 6, 8))
           /\ minute' = DigitsVal(Slice(line', 9, 11))
           /\ second' = DigitsVal(Slice(line', 12, 14))
           /\ pending' = 1 /\ job' = "live"]_vars

\* 23:59:59 was set on a clock that had ticked
LockedBeforeMidnight ==
    /\ act = "drive" /\ line = Frame(opGTM, T235959) /\ nEv >= 1
    /\ hour = 23 /\ minute = 59 /\ second = 59 /\ pending = 1

\* C25: a tick publishes the time string of the new hour, minute and second
\* and leaves its successor pending; a time frame that arrives while a tick
\* is pending, and after which drive goes on, leaves a tick pending.
TickKeepsRunning ==
    [][/\ act' = "tick"
             => /\ Sinks(ev') = <<Sink("curtime", <<TimeText(hour', minute', second')>>)>>
                /\ pending' = 1
       /\ (act' = "drive" /\ pc' = "main" /\ pending > 0) => pending' > 0]_vars

----------------------------------------------------------------------------
(* Further properties of the transport read by read (SpecRead)             *)

\* C26: an iteration of drive looks at the transport at most once, runs
\* the read loop at most once and hands at most one line, the one it read,
\* to handleMessage; with no port selected it does none of these.
OneLineEachIteration ==
    act = "drive"
        => /\ Len(Probes(ev)) <= 1 /\ Len(Reads(ev)) <= 1
           /\ Len(SelectSeq(ev, LAMBDA e : e.k = "enter")) <= 1
           /\ Pos(ev, "enter") > 0
                 => /\ Len(Reads(ev)) = 1 /\ Len(line) > 0
                    /\ Pos(ev, "read") < Pos(ev, "enter")
           /\ portName = "None" => ev = <<>> /\ line = <<>>

\* an iteration ran after the port had been closed
IdleWhileClosed == act = "drive" /\ portName = "None" /\ fd = "closed" /\ ev = <<>>

----------------------------------------------------------------------------
(* Further properties of Model.sendPort (SpecSend)                         *)

\* C28: a command sent with no port selected writes nothing and raises
\* nothing.
DisconnectedSendSilent ==
    (act = "send" /\ portName = "None" /\ ev[1].cmd \in handlers)
        => Writes(ev) = <<>> /\ Raises(ev) = <<>>

----------------------------------------------------------------------------
(* Properties of what a dispatched frame makes the program send (Spec)     *)

\* C29: every command written while handleMessage runs is a query
\* '[OPC] G'; no set command is written.
NoSetFromDispatch ==
    \A i \in 1..Len(Dispatched(ev)) :
        Dispatched(ev)[i].k = "write"
            => \E op \in handlers : Dispatched(ev)[i].bytes = encodeCommand(op, G)

----------------------------------------------------------------------------
(* Properties of the DGF handler (SpecDGF)                                 *)

\* C30: a DGF frame puts its payload in the register when the payload is
\* twelve digits of a value in 1 .. 10^11; any other payload leaves the
\* register and the display as they were and one query [DGF] G is written.
DGFStoresOnlyInRange ==
    [][(act' = "drive" /\ Len(line') > 0 /\ Slice(line', 1, 4) = opDGF)
        => LET p == payloadOf(line')
           IN  IF /\ Len(p) = 12 /\ IsDigit(p)
                  /\ BigGT(BigOfDigits(p), BigZero)
                  /\ ~BigGT(BigOfDigits(p), Capacity)
               THEN fq' = BigOfDigits(p)
               ELSE /\ fq' = fq /\ dispFQ' = dispFQ
                    /\ Writes(ev') = <<Write(encodeCommand(opDGF, G))>>]_vars

----------------------------------------------------------------------------
(* Properties of the host loop (SpecBusy)                                  *)

\* C31: from the first query of updateStatus to its return every step is a
\* pass of updateStatus: no tick fires and no button is served, and the
\* clock fields change only in a pass that handed a GTM frame to its
\* handler.
ResyncHoldsTheLoop ==
    [][/\ pc = "resync"
             => /\ act' = "resync" /\ nEv' = nEv
                /\ <<hour', minute', second'>> # <<hour, minute, second>>
                      => \E i \in 1..Len(ev') : ev'[i].k = "call" /\ ev'[i].op = opGTM
       /\ act' \in {"tick", "up", "down", "select"} => pc = "main"]_vars

\* a time frame was handled in a wait while the clock's timer was pending
\* and after a tick had fired
TimerWaitsForResync ==
    /\ pc = "resync" /\ act = "resync" /\ Slice(line, 1, 4) = opGTM
    /\ pending = 1 /\ nEv >= 1

----------------------------------------------------------------------------
(* Properties of the transport as a queue of bytes (SpecWire)              *)

\* position of the first CR or LF in bytes (0 when there is none)
FirstEOL(bytes) ==
    IF \E i \in 1..Len(bytes) : bytes[i] \in {CR, LF}
    THEN CHOOSE i \in 1..Len(bytes) :
            bytes[i] \in {CR, LF} /\ \A j \in 1..(i - 1) : bytes[j] \notin {CR, LF}
    ELSE 0

\* C32: a call of readPort on a queue that holds a CR or LF takes the
\* bytes up to and including the first of them and leaves the bytes after
\* it; the line returned holds no CR or LF and is the text in front of
\* that terminator, without blanks at its end, when that text begins with
\* a brace (and empty when it does not).
ReadTakesOneLine ==
    [][(act' \in {"drive", "resync"} /\ portName # "None" /\ FirstEOL(wire) > 0)
        => /\ wire' = From(wire, FirstEOL(wire))
           /\ \A i \in 1..Len(line') : line'[i] \notin {CR, LF}
           /\ line' = IF wire[1] = "{" THEN RStrip(Slice(wire, 0, FirstEOL(wire) - 1))
                      ELSE <<>>]_vars

\* the second line of a burst was returned by the call after the calls
\* that returned the first line and the empty line between CR and LF
SecondLineRead ==
    /\ act = "drive" /\ line = Frame(opFPN, <<"a">>) /\ wire = <<>>
    /\ Reads(ev)[1].n = 8

----------------------------------------------------------------------------
(* Properties of the Send button (SpecPass)                                *)

\* C33: a press of Send with the port open writes the text of the entry
\* as it is, followed by CR LF when the CR+LF box is ticked and by nothing
\* when it is not.
PassthroughVerbatim ==
    (act = "pass" /\ fd = "open" /\ Len(ev[1].d) > 0)
        => Writes(ev) = <<Write(IF ev[1].crlf THEN ev[1].d \o <<CR, LF>>
                                ELSE ev[1].d)>>

----------------------------------------------------------------------------
(* Properties of the dispatcher in drive and in updateStatus (Spec)        *)

\* the program state a step leaves
CurAfter ==
    [portName |-> portName', fd |-> fd', fq |-> fq', dispFQ |-> dispFQ',
     hour |-> hour', minute |-> minute', second |-> second', job |-> job',
     pending |-> pending', sats |-> sats', deviceOK |-> deviceOK']

\* C34: a line read by drive or in a wait of updateStatus, for whatever
\* opcode the wait is, leads to the handler call, with the payload, and to
\* the program state that handleMessage gives for that line on the state
\* before.
DispatchSameEverywhere ==
    [][(act' \in {"drive", "resync"} /\ Len(line') > 0)
        => /\ Calls(ev') = Calls(handleMessage(Cur, line').ev)
           /\ CurAfter = handleMessage(Cur, line').st]_vars

\* a time frame, which no query asks for, was handled in the wait for OSM
PushFrameInWait ==
    /\ act = "resync" /\ pc = "resync" /\ cmdIdx = 3
    /\ line = Frame(opGTM, T123456) /\ hour = 12 /\ minute = 34 /\ second = 56

\* C35: a MIN line read in a wait of updateStatus leaves updateStatus in
\* that wait, at the same opcode, and writes no query; a MIN line read by
\* drive starts one run, with the one query for the first opcode.
ResyncNotReentered ==
    [][/\ (pc = "resync" /\ act' = "resync" /\ Slice(line', 1, 4) = opMIN
              /\ count < ReadCap - 1)
             => pc' = "resync" /\ cmdIdx' = cmdIdx /\ Writes(ev') = <<>>
       /\ (pc = "main" /\ act' = "drive" /\ Slice(line', 1, 4) = opMIN)
             => /\ pc' = "resync" /\ cmdIdx' = 1 /\ count' = 0
                /\ Writes(ev') = <<Write(encodeCommand(opCCM, G))>>]_vars

\* a MIN frame was read and counted in the wait for OTP
MINInWait ==
    /\ act = "resync" /\ pc = "resync" /\ cmdIdx = 2 /\ count = 1
    /\ line = Frame(opMIN, <<"u", "p">>)

----------------------------------------------------------------------------
(* Properties of the port selection (SpecRead)                             *)

\* C36: whenever a port is selected the handle held is open; a press of
\* the button with a port selected closes the handle and leaves none
\* selected; and with none selected, as after an open that failed, drive
\* and updateStatus do not touch the transport.
HandleOpenWhenSelected ==
    /\ portName # "None" => fd = "open"
    /\ (act = "select" /\ ev[1] = Sink("serialButton", <<<<"Select">>>>))
          => portName = "None" /\ fd = "closed"
    /\ (act \in {"drive", "resync"} /\ portName = "None")
          => Probes(ev) = <<>> /\ Reads(ev) = <<>>

\* after the port had been closed an attempt to open it again failed
OpenFailed ==
    /\ act = "select" /\ ev[1] = Sink("serialButton", <<<<"Close">>>>)
    /\ portName = "None" /\ fd = "closed"

----------------------------------------------------------------------------
(* Properties of single handlers (Spec)                                    *)

\* C37: the FLP handler marks a filter as installed when the text after
\* the first two characters of the payload is a number below the number of
\* bands; for any other payload it writes a diagnostic, marks nothing and
\* raises nothing.
FLPOnlyInTable ==
    \A i \in 1..Len(ev) :
        (ev[i].k = "call" /\ ev[i].op = opFLP)
            => LET v == From(ev[i].data, 2)
               IN  IF IsDigit(v) /\ Len(Canon(v)) <= 2 /\ DigitsVal(Canon(v)) < NBands
                   THEN Sinks(Handled(ev)) = <<Sink("installLP", <<Canon(v)>>)>>
                   ELSE /\ Raises(ev) = <<>>
                        /\ Sinks(Handled(ev)) = <<>>
                        /\ Len(Diags(Handled(ev))) = 1

\* C38: the 'device detected' indicator goes on only in a step that read
\* a line of five characters or more, it is off after every press of the
\* Select / Close button, and while it is on a port is selected.
IndicatorFollowsFrames ==
    [][/\ (deviceOK' /\ ~deviceOK)
             => act' \in {"drive", "resync"} /\ Len(line') >= 5
       /\ act' = "select" => ~deviceOK'
       /\ deviceOK' => portName' # "None"]_vars

\* the indicator is on after a TCC frame was read by drive
DetectedByFrame == deviceOK /\ act = "drive" /\ line = Filler /\ portName # "None"

====
